---- MODULE Spec2Model ----
(***************************************************************************)
(* Model of the "users" service (src/services/users.service.js, the        *)
(* service definition that starts at line 325): registration, login,       *)
(* token resolution behind the action cache, self-update, the wallet       *)
(* increment and the third-party onboarding bridge.                        *)
(*                                                                         *)
(* Time is counted in half hours, so that the cache TTL (1 hour) and the   *)
(* token lifetime (60 days) are both whole numbers.                        *)
(*                                                                         *)
(* A request whose handler awaits more than one store operation occupies   *)
(* a slot of `reqs` between its steps; the other handlers touch the store  *)
(* once and are single steps.  `resp` is the response delivered by the     *)
(* step just taken (NoResp when the step delivered none).                  *)
(***************************************************************************)
EXTENDS Integers, FiniteSets, Sequences, TLC

VARIABLES
    store,      \* the users collection: _id -> document
    nextId,     \* the next _id the store assigns
    cache,      \* the resolveToken action cache: token -> [data, at]
    now,        \* the clock, in half hours
    ticks,      \* how many times the clock has advanced
    reqs,       \* requests in flight: slot -> request
    held,       \* the session token the client of each account holds
    acked,      \* per account, the sum of the wallet deltas applied so far
    seen,       \* per token string, what the handler of resolveToken last returned
                \* for it within the last hour: [data, at, intact]; intact is
                \* FALSE once an entity change was notified after that
    note,       \* the entity change the last step notified ("none" when none)
    resp        \* the response delivered by the last step

vars == <<store, nextId, cache, now, ticks, reqs, held, acked, seen, note, resp>>

----------------------------------------------------------------------------
(* Bounds of the model *)

MaxAccounts == 2
MaxInFlight == 2
MaxTicks == 2
MaxWallet == 2

(* Program constants, in half hours *)
CacheTTL == 2
TokenLifetime == 2880

Ids == 1..MaxAccounts
Slots == 1..MaxInFlight
Usernames == {"u1", "u2"}
Emails == {"e1", "e2"}
Passwords == {"p1", "p2"}
GitIds == {"g1"}
Costs == {1, -1}
TickSteps == {1, TokenLifetime - 1}

----------------------------------------------------------------------------
(* Values *)

\* A password value: the text and whether it is a bcrypt hash of that text.
Plain(p) == [hashed |-> FALSE, text |-> p]

\* bcrypt.hashSync(password, 10)
bcryptHashSync(pw) == [hashed |-> TRUE, text |-> pw.text]

\* bcrypt.compare(password, stored): false when `stored` is not a bcrypt hash
bcryptCompare(pw, stored) == stored.hashed /\ stored.text = pw.text

\* The absent token (ctx.meta.token undefined) and a token signed with another key
NoToken == [id |-> 0, username |-> "", exp |-> 0, sig |-> "none"]
ForgedToken == [id |-> 1, username |-> "u1", exp |-> TokenLifetime, sig |-> "bad"]

\* The null document
Null == [f \in {} |-> 0]

PublicFields == {"_id", "username", "git_id", "email", "twitter", "avatar"}

NoErr == [name |-> "", code |-> 0, message |-> "", field |-> ""]
ClientError(message, code, field) ==
    [name |-> "MoleculerClientError", code |-> code, message |-> message, field |-> field]
\* The errors of the libraries, which the handlers let through as they are
MongoError == [name |-> "MongoError", code |-> 11000, message |-> "store", field |-> ""]
StoreDown == [name |-> "MongoNetworkError", code |-> 0, message |-> "store", field |-> ""]
JsonWebTokenError == [name |-> "JsonWebTokenError", code |-> 0, message |-> "invalid signature", field |-> ""]
TokenExpiredError == [name |-> "TokenExpiredError", code |-> 0, message |-> "jwt expired", field |-> ""]

\* A response: the operation called, its params and ctx.meta.token, and what it
\* returned (body) or threw (err).  `via` says how the answer was produced:
\* "cache" for a cacher hit, "timeout"/"status" for a failed provider call,
\* "provider" for a registration that went through the provider.
NoResp == [op |-> "none", ok |-> TRUE, err |-> NoErr, body |-> Null,
           params |-> Null, token |-> NoToken, via |-> ""]
Ok(op, params, token, via, body) ==
    [op |-> op, ok |-> TRUE, err |-> NoErr, body |-> body,
     params |-> params, token |-> token, via |-> via]
Fail(op, params, token, via, err) ==
    [op |-> op, ok |-> FALSE, err |-> err, body |-> Null,
     params |-> params, token |-> token, via |-> via]

\* A request in flight: `via` is "provider" when users.create was called by
\* registerwithtoken
Idle == [op |-> "idle", pc |-> "", params |-> Null, caller |-> 0,
         token |-> NoToken, via |-> ""]

----------------------------------------------------------------------------
(* The store adapter *)

\* adapter.findOne({field: value}): the _ids of the matching documents
Matching(field, value) ==
    {i \in DOMAIN store : field \in DOMAIN store[i] /\ store[i][field] = value}

\* "_id" of the document findOne returns (0 when none matches)
findOne(field, value) ==
    IF Matching(field, value) = {} THEN 0
    ELSE CHOOSE i \in Matching(field, value) : \A j \in Matching(field, value) : i <= j

\* A collection without unique indexes
NoUniqueIndex(doc, self) == FALSE

\* The unique indexes of the collection on username and email: whether writing
\* `doc` as document `self` is rejected with a duplicate-key error
DuplicateKey(doc, self) ==
    \E i \in DOMAIN store \ {self} :
        \/ "username" \in DOMAIN doc /\ store[i].username = doc.username
        \/ "email" \in DOMAIN doc /\ store[i].email = doc.email

\* {"$set": patch} applied to a document
Set(doc, patch) ==
    [f \in DOMAIN doc \cup DOMAIN patch |->
        IF f \in DOMAIN patch THEN patch[f] ELSE doc[f]]

Wallet(doc) == IF "wallet" \in DOMAIN doc THEN doc.wallet ELSE 0

\* {"$set": {wallet: delta}} in the place of the increment
IncAsSet(doc, delta) ==
    [f \in DOMAIN doc \cup {"wallet"} |-> IF f = "wallet" THEN delta ELSE doc[f]]

\* An increment that also stamps the document
IncTouching(doc, delta) ==
    [f \in DOMAIN doc \cup {"wallet", "updatedAt"} |->
        IF f = "wallet" THEN Wallet(doc) + delta
        ELSE IF f = "updatedAt" THEN now ELSE doc[f]]

\* {"$inc": {wallet: delta}} applied to a document
Inc(doc, delta) ==
    [f \in DOMAIN doc \cup {"wallet"} |->
        IF f = "wallet" THEN Wallet(doc) + delta ELSE doc[f]]

----------------------------------------------------------------------------
(* Methods *)

\* transformDocuments(ctx, {}, doc): keeps settings.fields
transformDocuments(doc) == [f \in DOMAIN doc \cap PublicFields |-> doc[f]]

generateJWT(user) ==
    [id |-> user._id, username |-> user.username, exp |-> now + TokenLifetime,
     sig |-> "ok"]

Gravatar(email) == "gravatar:" \o email

transformEntity(user, withToken, token) ==
    IF user = Null THEN [user |-> Null]
    ELSE LET withAvatar ==
                 [f \in DOMAIN user \cup {"avatar"} |->
                     IF f = "avatar"
                     THEN IF "avatar" \in DOMAIN user /\ user.avatar # ""
                          THEN user.avatar ELSE Gravatar(user.email)
                     ELSE user[f]]
         IN [user |->
               IF withToken
               THEN [f \in DOMAIN withAvatar \cup {"token"} |->
                       IF f = "token"
                       THEN IF token # NoToken THEN token ELSE generateJWT(user)
                       ELSE withAvatar[f]]
               ELSE withAvatar]

----------------------------------------------------------------------------
(* Inputs *)

\* params.user of create: a valid entity (entityValidator passes)
Candidates ==
    [username : Usernames, email : Emails, password : {Plain("p1")}, git_id : GitIds]

\* params.user of updateMyself: the modified fields
Patches ==
    {[username |-> u] : u \in Usernames}
    \cup {[email |-> e] : e \in Emails}
    \cup {[password |-> Plain("p2")]}

\* params.user of updateMyself with a field the params schema does not name:
\* the schema is not strict, so the field stays in newData
AnyPatches == Patches \cup {[wallet |-> 1]}

\* params.user of login
Credentials == [email : Emails, password : {Plain(p) : p \in Passwords}]

\* ctx.meta.token: none, or a session token some client holds
MetaTokens == {NoToken} \cup {held[i] : i \in Ids}

\* The token strings a caller can present to resolveToken
PresentedTokens == ({held[i] : i \in Ids} \ {NoToken}) \cup {ForgedToken}

----------------------------------------------------------------------------
(* State after construction *)

Init ==
    /\ store = [i \in {} |-> Null]
    /\ nextId = 1
    /\ cache = [t \in {} |-> Null]
    /\ now = 0
    /\ ticks = 0
    /\ reqs = [r \in Slots |-> Idle]
    /\ held = [i \in Ids |-> NoToken]
    /\ acked = [i \in Ids |-> 0]
    /\ seen = [t \in {} |-> Null]
    /\ note = "none"
    /\ resp = NoResp

----------------------------------------------------------------------------
(* Helpers of the actions *)

InFlight(op) == {r \in Slots : reqs[r].op = op}

\* A request takes the first free slot
Free(r) == reqs[r] = Idle /\ \A q \in Slots : q < r => reqs[q] # Idle

\* The client of the account a returned token names keeps it
Keep(body) ==
    IF "user" \in DOMAIN body /\ "token" \in DOMAIN body.user
       /\ body.user.token.sig = "ok" /\ body.user.token.id \in Ids
    THEN [held EXCEPT ![body.user.token.id] = body.user.token]
    ELSE held

\* What the caller of `via` receives when users.create throws `err`:
\* registerwithtoken catches every error of its try block
Thrown(via, err) ==
    IF via = "provider" THEN ClientError("bad details!", 422, "") ELSE err

OpOf(via) == IF via = "provider" THEN "registerwithtoken" ELSE "create"

\* this.entityChanged(type, json, ctx) clears the cache of the service; the
\* resolutions seen before it are marked
Changed(s) == [t \in DOMAIN s |-> [s[t] EXCEPT !.intact = FALSE]]

----------------------------------------------------------------------------
(* create *)

\* handler up to the first findOne: the username check
CreateBegin(r, user, tok, via) ==
    IF findOne("username", user.username) # 0
    THEN /\ resp' = Fail(OpOf(via), user, tok, via,
                        Thrown(via, ClientError("Username is exist!", 422, "username")))
         /\ UNCHANGED reqs
    ELSE /\ reqs' = [reqs EXCEPT ![r] =
                       [op |-> "create", pc |-> "email", params |-> user,
                        caller |-> 0, token |-> tok, via |-> via]]
         /\ resp' = NoResp

CreateStart(r, user, tok) ==
    /\ Free(r)
    /\ nextId + Cardinality(InFlight("create")) <= MaxAccounts
    /\ CreateBegin(r, user, tok, "")
    /\ note' = "none"
    /\ UNCHANGED <<store, nextId, cache, now, ticks, held, acked, seen>>

\* create without its email lookup
CreateCheckEmailSkipped(r) ==
    /\ reqs[r].op = "create" /\ reqs[r].pc = "email"
    /\ reqs' = [reqs EXCEPT ![r].pc = "insert"]
    /\ resp' = NoResp
    /\ note' = "none"
    /\ UNCHANGED <<store, nextId, cache, now, ticks, held, acked, seen>>

CreateCheckEmail(r) ==
    /\ reqs[r].op = "create" /\ reqs[r].pc = "email"
    /\ IF findOne("email", reqs[r].params.email) # 0
       THEN /\ resp' = Fail(OpOf(reqs[r].via), reqs[r].params, reqs[r].token, reqs[r].via,
                           Thrown(reqs[r].via, ClientError("Email is exist!", 422, "email")))
            /\ reqs' = [reqs EXCEPT ![r] = Idle]
       ELSE /\ reqs' = [reqs EXCEPT ![r].pc = "insert"]
            /\ resp' = NoResp
    /\ note' = "none"
    /\ UNCHANGED <<store, nextId, cache, now, ticks, held, acked, seen>>

\* entity.password = bcrypt.hashSync(...); entity.createdAt = new Date()
CreateEntity(user) ==
    Set(user, [password |-> bcryptHashSync(user.password), createdAt |-> now])

CreateInsert(r) ==
    /\ reqs[r].op = "create" /\ reqs[r].pc = "insert"
    /\ LET doc == Set(CreateEntity(reqs[r].params), [_id |-> nextId])
           json == transformEntity(transformDocuments(doc), TRUE, reqs[r].token)
       IN IF DuplicateKey(doc, 0)
          THEN /\ resp' = Fail(OpOf(reqs[r].via), reqs[r].params, reqs[r].token,
                              reqs[r].via, Thrown(reqs[r].via, MongoError))
               /\ UNCHANGED <<store, nextId, cache, held, seen>>
               /\ note' = "none"
          ELSE /\ store' = [i \in DOMAIN store \cup {nextId} |->
                              IF i = nextId THEN doc ELSE store[i]]
               /\ nextId' = nextId + 1
               /\ cache' = [t \in {} |-> Null]
               /\ seen' = Changed(seen)
               /\ note' = "created"
               /\ held' = Keep(json)
               /\ resp' = Ok(OpOf(reqs[r].via), reqs[r].params, reqs[r].token,
                            reqs[r].via, json)
    /\ reqs' = [reqs EXCEPT ![r] = Idle]
    /\ UNCHANGED <<now, ticks, acked>>

----------------------------------------------------------------------------
(* login *)

Login(user, tok) ==
    /\ LET found == findOne("email", user.email)
       IN IF found = 0
          THEN /\ resp' = Fail("login", user, tok, "",
                              ClientError("Email or password is invalid!", 422, "email"))
               /\ UNCHANGED held
          ELSE IF ~bcryptCompare(user.password, store[found].password)
          THEN /\ resp' = Fail("login", user, tok, "",
                              ClientError("Wrong password!", 422, "email"))
               /\ UNCHANGED held
          ELSE LET json == transformEntity(transformDocuments(store[found]), TRUE, tok)
               IN /\ resp' = Ok("login", user, tok, "", json)
                  /\ held' = Keep(json)
    /\ note' = "none"
    /\ UNCHANGED <<store, nextId, cache, now, ticks, reqs, acked, seen>>

----------------------------------------------------------------------------
(* resolveToken, behind the cacher middleware *)

\* A cacher whose entries never expire
LiveForever(at, t) == TRUE

\* Whether an entry the cacher stored at time `at` is within its TTL at time `t`
Live(at, t) == t < at + CacheTTL

\* A service without the cacher: every get is a miss
CacheGetMiss(tok) == Null

\* The cacher's get: the stored content, Null on a miss or after the TTL
CacheGet(tok) ==
    IF tok \in DOMAIN cache /\ Live(cache[tok].at, now)
    THEN cache[tok].data ELSE Null

\* The cacher's set
CacheSet(tok, data) ==
    [t \in DOMAIN cache \cup {tok} |->
        IF t = tok THEN [data |-> data, at |-> now] ELSE cache[t]]

\* jwt.verify(token, JWT_SECRET): the error it calls back with, NoErr when none
jwtVerify(tok) ==
    IF tok.sig # "ok" THEN JsonWebTokenError
    ELSE IF now >= tok.exp THEN TokenExpiredError
    ELSE NoErr

\* this.getById(id): the stored document as it is, Null when there is none
getById(id) == IF id \in DOMAIN store THEN store[id] ELSE Null

\* What the action returns for `tok` in the current state
Resolve(tok) ==
    IF CacheGet(tok) # Null THEN Ok("resolveToken", Null, tok, "cache", CacheGet(tok))
    ELSE IF jwtVerify(tok) # NoErr THEN Fail("resolveToken", Null, tok, "", jwtVerify(tok))
    ELSE Ok("resolveToken", Null, tok, "", getById(tok.id))

ResolveToken(tok) ==
    /\ resp' = Resolve(tok)
    /\ cache' = IF CacheGet(tok) = Null /\ jwtVerify(tok) = NoErr
                THEN CacheSet(tok, getById(tok.id)) ELSE cache
    /\ seen' = IF CacheGet(tok) = Null /\ jwtVerify(tok) = NoErr /\ getById(tok.id) # Null
               THEN [t \in DOMAIN seen \cup {tok} |->
                       IF t = tok
                       THEN [data |-> getById(tok.id), at |-> now, intact |-> TRUE]
                       ELSE seen[t]]
               ELSE seen
    /\ note' = "none"
    /\ UNCHANGED <<store, nextId, now, ticks, reqs, held, acked>>

----------------------------------------------------------------------------
(* me *)

Me(caller, tok) ==
    /\ IF getById(caller) = Null
       THEN /\ resp' = Fail("me", [_id |-> caller], tok, "",
                           ClientError("User not found!", 400, ""))
            /\ UNCHANGED held
       ELSE LET json == transformEntity(transformDocuments(getById(caller)), TRUE, tok)
            IN /\ resp' = Ok("me", [_id |-> caller], tok, "", json)
               /\ held' = Keep(json)
    /\ note' = "none"
    /\ UNCHANGED <<store, nextId, cache, now, ticks, reqs, acked, seen>>

----------------------------------------------------------------------------
(* updateMyself *)

\* found && found._id.toString() !== ctx.meta.user1._id.toString()
TakenByOther(field, patch, caller) ==
    /\ field \in DOMAIN patch
    /\ findOne(field, patch[field]) # 0
    /\ findOne(field, patch[field]) # caller

UpdateMyselfStart(r, caller, patch, tok) ==
    /\ Free(r)
    /\ IF TakenByOther("username", patch, caller)
       THEN /\ resp' = Fail("updateMyself", patch, tok, "",
                           ClientError("Username is exist!", 422, "username"))
            /\ UNCHANGED reqs
       ELSE /\ reqs' = [reqs EXCEPT ![r] =
                          [op |-> "updateMyself", pc |-> "email", params |-> patch,
                           caller |-> caller, token |-> tok, via |-> ""]]
            /\ resp' = NoResp
    /\ note' = "none"
    /\ UNCHANGED <<store, nextId, cache, now, ticks, held, acked, seen>>

\* updateMyself stamping the account before its email lookup
UpdateMyselfCheckEmailStamping(r) ==
    /\ reqs[r].op = "updateMyself" /\ reqs[r].pc = "email"
    /\ IF TakenByOther("email", reqs[r].params, reqs[r].caller)
       THEN /\ resp' = Fail("updateMyself", reqs[r].params, reqs[r].token, "",
                           ClientError("Email is exist!", 422, "email"))
            /\ reqs' = [reqs EXCEPT ![r] = Idle]
            /\ store' = [store EXCEPT ![reqs[r].caller] = Set(@, [updatedAt |-> now])]
       ELSE /\ reqs' = [reqs EXCEPT ![r].pc = "write"]
            /\ resp' = NoResp
            /\ UNCHANGED store
    /\ note' = "none"
    /\ UNCHANGED <<nextId, cache, now, ticks, held, acked, seen>>

UpdateMyselfCheckEmail(r) ==
    /\ reqs[r].op = "updateMyself" /\ reqs[r].pc = "email"
    /\ IF TakenByOther("email", reqs[r].params, reqs[r].caller)
       THEN /\ resp' = Fail("updateMyself", reqs[r].params, reqs[r].token, "",
                           ClientError("Email is exist!", 422, "email"))
            /\ reqs' = [reqs EXCEPT ![r] = Idle]
       ELSE /\ reqs' = [reqs EXCEPT ![r].pc = "write"]
            /\ resp' = NoResp
    /\ note' = "none"
    /\ UNCHANGED <<store, nextId, cache, now, ticks, held, acked, seen>>

\* newData.updatedAt = new Date(); update = {"$set": newData}
UpdateOf(patch) == Set(patch, [updatedAt |-> now])

UpdateMyselfWrite(r) ==
    /\ reqs[r].op = "updateMyself" /\ reqs[r].pc = "write"
    /\ LET id == reqs[r].caller
           doc == Set(store[id], UpdateOf(reqs[r].params))
           json == transformEntity(transformDocuments(doc), TRUE, reqs[r].token)
       IN IF DuplicateKey(doc, id)
          THEN /\ resp' = Fail("updateMyself", reqs[r].params, reqs[r].token, "", MongoError)
               /\ UNCHANGED <<store, cache, held, seen>>
               /\ note' = "none"
          ELSE /\ store' = [store EXCEPT ![id] = doc]
               /\ cache' = [t \in {} |-> Null]
               /\ seen' = Changed(seen)
               /\ note' = "updated"
               /\ held' = Keep(json)
               /\ resp' = Ok("updateMyself", reqs[r].params, reqs[r].token, "", json)
    /\ reqs' = [reqs EXCEPT ![r] = Idle]
    /\ UNCHANGED <<nextId, now, ticks, acked>>

----------------------------------------------------------------------------
(* deductWallet *)

Abs(n) == IF n < 0 THEN -n ELSE n

\* The model keeps every wallet within MaxWallet
WalletRoom(id) ==
    Abs(Wallet(getById(id))) + Cardinality({r \in InFlight("deductWallet") :
                                              reqs[r].params._id = id}) < MaxWallet

DeductWalletCall(r, payload) ==
    /\ Free(r)
    /\ WalletRoom(payload._id)
    /\ reqs' = [reqs EXCEPT ![r] =
                  [op |-> "deductWallet", pc |-> "store", params |-> payload,
                   caller |-> 0, token |-> NoToken, via |-> ""]]
    /\ resp' = NoResp
    /\ note' = "none"
    /\ UNCHANGED <<store, nextId, cache, now, ticks, held, acked, seen>>

\* What the caller receives when the promise of adapter.updateById rejects with
\* `err`: the handler returns the promise without awaiting it inside the try
\* block, so the catch clause does not run
DeductWalletRejected(err) == err

\* adapter.updateById(_id, {$inc: {wallet: -cost}}): one findByIdAndUpdate
DeductWalletStore(r, up) ==
    /\ reqs[r].op = "deductWallet" /\ reqs[r].pc = "store"
    /\ LET id == reqs[r].params._id
           delta == -reqs[r].params.cost
       IN IF ~up
          THEN /\ resp' = Fail("deductWallet", reqs[r].params, NoToken, "",
                              DeductWalletRejected(StoreDown))
               /\ UNCHANGED <<store, acked>>
          ELSE IF id \notin DOMAIN store
          THEN /\ resp' = Ok("deductWallet", reqs[r].params, NoToken, "", Null)
               /\ UNCHANGED <<store, acked>>
          ELSE /\ store' = [store EXCEPT ![id] = Inc(store[id], delta)]
               /\ acked' = [acked EXCEPT ![id] = @ + delta]
               /\ resp' = Ok("deductWallet", reqs[r].params, NoToken, "",
                            Inc(store[id], delta))
    /\ reqs' = [reqs EXCEPT ![r] = Idle]
    /\ note' = "none"
    /\ UNCHANGED <<nextId, cache, now, ticks, held, seen>>

----------------------------------------------------------------------------
(* getbygitID *)

GetbygitID(id) ==
    /\ resp' = IF findOne("git_id", id) = 0
               THEN Fail("getbygitID", [id |-> id], NoToken, "",
                         ClientError("User not found!", 404, ""))
               ELSE Ok("getbygitID", [id |-> id], NoToken, "",
                       transformDocuments(store[findOne("git_id", id)]))
    /\ note' = "none"
    /\ UNCHANGED <<store, nextId, cache, now, ticks, reqs, held, acked, seen>>

----------------------------------------------------------------------------
(* remove *)

EntityNotFoundError ==
    [name |-> "EntityNotFoundError", code |-> 404, message |-> "Entity not found",
     field |-> ""]

\* The remove action of the database mixin: adapter.removeById, then
\* entityChanged("removed")
Remove(id) ==
    /\ IF id \notin DOMAIN store
       THEN /\ resp' = Fail("remove", [id |-> id], NoToken, "", EntityNotFoundError)
            /\ UNCHANGED <<store, cache, acked, seen>>
            /\ note' = "none"
       ELSE /\ store' = [i \in DOMAIN store \ {id} |-> store[i]]
            /\ cache' = [t \in {} |-> Null]
            /\ acked' = [acked EXCEPT ![id] = 0]
            /\ seen' = Changed(seen)
            /\ note' = "removed"
            /\ resp' = Ok("remove", [id |-> id], NoToken, "", transformDocuments(store[id]))
    /\ UNCHANGED <<nextId, now, ticks, reqs, held>>

----------------------------------------------------------------------------
(* registerwithtoken *)

\* How the provider call ends: a 2xx answer, a timeout, another status
ProviderOutcomes == {"ok", "timeout", "status"}

\* res.data of GET https://api.github.com/user
ProviderProfiles ==
    [id : {"g2"}, name : Usernames, avatar_url : {"a1"}, twitter_username : {"t1"}]

RegTokenParams == [email : {"e2"}, password : {Plain("p1")}]

RegisterUser(params, data) ==
    [email |-> params.email, git_id |-> data.id, username |-> data.name,
     password |-> params.password, avatar |-> data.avatar_url,
     twitter |-> data.twitter_username]

\* registerwithtoken going on to users.create whatever the provider call did
RegisterWithTokenUnchecked(r, params, tok, outcome, data) ==
    /\ Free(r)
    /\ nextId + Cardinality(InFlight("create")) <= MaxAccounts
    /\ CreateBegin(r, RegisterUser(params, data), tok, "provider")
    /\ note' = "none"
    /\ UNCHANGED <<store, nextId, cache, now, ticks, held, acked, seen>>

\* The step in which the provider call settles; on success users.create is called
RegisterWithToken(r, params, tok, outcome, data) ==
    /\ Free(r)
    /\ nextId + Cardinality(InFlight("create")) <= MaxAccounts
    /\ IF outcome # "ok"
       THEN /\ resp' = Fail("registerwithtoken", params, tok, outcome,
                           ClientError("bad details!", 422, ""))
            /\ UNCHANGED reqs
       ELSE CreateBegin(r, RegisterUser(params, data), tok, "provider")
    /\ note' = "none"
    /\ UNCHANGED <<store, nextId, cache, now, ticks, held, acked, seen>>

----------------------------------------------------------------------------
(* The clock; the cacher drops the entries whose TTL has ended *)

Tick(d) ==
    /\ ticks < MaxTicks
    /\ now' = now + d
    /\ ticks' = ticks + 1
    /\ cache' = [t \in {k \in DOMAIN cache : Live(cache[k].at, now + d)} |-> cache[t]]
    /\ seen' = [t \in {k \in DOMAIN seen : now + d < seen[k].at + CacheTTL} |-> seen[t]]
    /\ resp' = NoResp
    /\ note' = "none"
    /\ UNCHANGED <<store, nextId, reqs, held, acked>>

----------------------------------------------------------------------------
(* Concurrent registrations, self-updates and logins by callers that carry *)
(* no session token                                                        *)

Next ==
    \/ \E r \in Slots, user \in Candidates : CreateStart(r, user, NoToken)
    \/ \E r \in Slots : CreateCheckEmail(r)
    \/ \E r \in Slots : CreateInsert(r)
    \/ \E user \in Credentials : Login(user, NoToken)
    \/ \E r \in Slots, caller \in DOMAIN store, patch \in Patches :
          UpdateMyselfStart(r, caller, patch, NoToken)
    \/ \E r \in Slots : UpdateMyselfCheckEmail(r)
    \/ \E r \in Slots : UpdateMyselfWrite(r)
    \/ \E r \in Slots, params \in RegTokenParams, outcome \in ProviderOutcomes,
          data \in ProviderProfiles :
          RegisterWithToken(r, params, NoToken, outcome, data)

Spec == Init /\ [][Next]_vars

----------------------------------------------------------------------------
(* The life of session tokens: one request at a time, callers that may     *)
(* carry a session token, and the clock                                    *)

NextSession ==
    \/ \E user \in Candidates, tok \in MetaTokens : CreateStart(1, user, tok)
    \/ CreateCheckEmail(1)
    \/ CreateInsert(1)
    \/ \E user \in Credentials, tok \in MetaTokens : Login(user, tok)
    \/ \E tok \in PresentedTokens : ResolveToken(tok)
    \/ \E d \in TickSteps : Tick(d)

SpecSession == Init /\ [][NextSession]_vars

----------------------------------------------------------------------------
(* Concurrent wallet adjustments and reads of registered accounts *)

NextWallet ==
    \/ \E r \in Slots, user \in Candidates : CreateStart(r, user, NoToken)
    \/ \E r \in Slots : CreateCheckEmail(r)
    \/ \E r \in Slots : CreateInsert(r)
    \/ \E r \in Slots, id \in Ids, cost \in Costs :
          DeductWalletCall(r, [_id |-> id, cost |-> cost])
    \/ \E r \in Slots, up \in BOOLEAN : DeductWalletStore(r, up)
    \/ \E caller \in DOMAIN store : \E tok \in {NoToken, held[caller]} : Me(caller, tok)
    \/ \E id \in GitIds \cup {"g2"} : GetbygitID(id)

SpecWallet == Init /\ [][NextWallet]_vars

----------------------------------------------------------------------------
(* The resolution cache over the life of an account: one request at a time; *)
(* registration, wallet charges, removal, token resolution, and the clock   *)
(* advancing by half hours (no token expires)                               *)

NextCache ==
    \/ \E user \in Candidates : CreateStart(1, user, NoToken)
    \/ CreateCheckEmail(1)
    \/ CreateInsert(1)
    \/ \E tok \in PresentedTokens : ResolveToken(tok)
    \/ \E id \in DOMAIN store : DeductWalletCall(1, [_id |-> id, cost |-> 1])
    \/ \E up \in BOOLEAN : DeductWalletStore(1, up)
    \/ \E id \in Ids : Remove(id)
    \/ Tick(1)

SpecCache == Init /\ [][NextCache]_vars

----------------------------------------------------------------------------
(* Registrations, logins and self-updates with any patch, one request at a  *)
(* time                                                                     *)

NextPatch ==
    \/ \E user \in Candidates : CreateStart(1, user, NoToken)
    \/ CreateCheckEmail(1)
    \/ CreateInsert(1)
    \/ \E user \in Credentials : Login(user, NoToken)
    \/ \E caller \in DOMAIN store, patch \in AnyPatches :
          UpdateMyselfStart(1, caller, patch, NoToken)
    \/ UpdateMyselfCheckEmail(1)
    \/ UpdateMyselfWrite(1)

SpecPatch == Init /\ [][NextPatch]_vars

----------------------------------------------------------------------------
(* The error kinds of the interface, as the service signals them *)

\* ConflictError on `field`: the 422 client error with the field's detail
ConflictError(field) ==
    ClientError(IF field = "username" THEN "Username is exist!" ELSE "Email is exist!",
                422, field)

IsConflictError(err) == err \in {ConflictError("username"), ConflictError("email")}

\* OnboardingError: the generic "bad details!" condition
OnboardingError == ClientError("bad details!", 422, "")

\* InternalError
InternalError == ClientError("Internal Error!", 500, "Failure")

\* InvalidCredentialsError: a 422 client error of login
IsInvalidCredentialsError(err) ==
    err.name = "MoleculerClientError" /\ err.code = 422 /\ err.field = "email"

\* Whether a returned value carries a password field
HasPassword(body) ==
    \/ "password" \in DOMAIN body
    \/ "user" \in DOMAIN body /\ "password" \in DOMAIN body.user

\* The accounts other than the one a successful response created
Others == DOMAIN store \ (IF resp.ok /\ "user" \in DOMAIN resp.body
                          THEN {resp.body.user._id} ELSE {})

HeldByOther(field) ==
    \E i \in Others : store[i][field] = resp.params[field]

----------------------------------------------------------------------------
(* C1 *)

\* C1: in every reachable state no two stored accounts have the same username
\* and no two have the same email, whatever the interleaving of the lookups and
\* writes of concurrent create, registerwithtoken and updateMyself requests.
C1_UniqueUsernameAndEmail ==
    \A i, j \in DOMAIN store :
        i # j => /\ store[i].username # store[j].username
                 /\ store[i].email # store[j].email

\* Two requests passed their lookups and the later write was refused by the
\* store, next to the account that won
C1_Witness ==
    /\ resp.op \in {"create", "updateMyself"}
    /\ resp.err = MongoError
    /\ Cardinality(DOMAIN store) >= 1

----------------------------------------------------------------------------
(* C2 *)

\* C2: no operation's result contains the account's password field.
C2_NoPasswordInResult == ~HasPassword(resp.body)

----------------------------------------------------------------------------
(* C3 *)

\* C3: the password stored for every account is a one-way hash, never the
\* plaintext a client supplied, after create and after updateMyself.
C3_StoredPasswordIsHash == \A i \in DOMAIN store : store[i].password.hashed

----------------------------------------------------------------------------
(* C4 *)

\* The account a login names, 0 when the email is unknown
LoginAccount == findOne("email", resp.params.email)

\* C4: login with the correct email and password of an account returns a token
\* that resolveToken resolves to that account's id, whatever session token the
\* caller supplied (none, or any validly signed, unexpired one); login with a
\* wrong password fails with InvalidCredentialsError.
C4_LoginTokenResolvesToAccount ==
    (/\ resp.op = "login" /\ LoginAccount # 0
     /\ (resp.token = NoToken \/ jwtVerify(resp.token) = NoErr)) =>
        IF bcryptCompare(resp.params.password, store[LoginAccount].password)
        THEN /\ resp.ok
             /\ Resolve(resp.body.user.token).ok
             /\ Resolve(resp.body.user.token).body # Null
             /\ Resolve(resp.body.user.token).body._id = LoginAccount
        ELSE ~resp.ok /\ IsInvalidCredentialsError(resp.err)

----------------------------------------------------------------------------
(* C5 *)

\* C5: resolveToken of a token whose expiry is in the past fails with
\* ExpiredTokenError, also when the token was resolved and cached before it
\* expired and the cache entry is within its TTL.
C5_ExpiredTokenIsRejected ==
    (resp.op = "resolveToken" /\ resp.token.sig = "ok" /\ now >= resp.token.exp) =>
        ~resp.ok /\ resp.err = TokenExpiredError

----------------------------------------------------------------------------
(* C6 *)

\* C6: whatever the order in which the store applies concurrent deductWallet
\* calls on an account, its wallet is the initial wallet (0, no wallet field)
\* plus the sum of the deltas of the calls applied.
C6_WalletIsSumOfDeltas == \A i \in DOMAIN store : Wallet(store[i]) = 0 + acked[i]

\* An adjustment was applied while another call on the same account was in flight
C6_Witness ==
    /\ resp.op = "deductWallet" /\ resp.ok /\ resp.body # Null
    /\ acked[resp.params._id] # 0
    /\ \E r \in InFlight("deductWallet") : reqs[r].params._id = resp.params._id

----------------------------------------------------------------------------
(* C7 *)

\* C7: when registrations run one after the other, a create whose username is
\* held by a stored account fails with ConflictError on username, and a create
\* whose email is held (its username being free) fails with ConflictError on
\* email.
C7_SequentialDuplicateIsConflict ==
    resp.op = "create" =>
        /\ HeldByOther("username") =>
              ~resp.ok /\ resp.err = ConflictError("username")
        /\ (HeldByOther("email") /\ ~HeldByOther("username")) =>
              ~resp.ok /\ resp.err = ConflictError("email")

\* A second registration with a free username and a held email was refused
C7_Witness ==
    /\ resp.op = "create" /\ ~resp.ok
    /\ HeldByOther("email") /\ ~HeldByOther("username")

----------------------------------------------------------------------------
(* C8 *)

\* C8: a registration that passed the lookups and whose insert the store then
\* rejects for a uniqueness violation fails with ConflictError, not with another
\* error kind.
C8_LateViolationIsConflictError ==
    (resp.op = "create" /\ ~resp.ok) => IsConflictError(resp.err)

----------------------------------------------------------------------------
(* C9 *)

\* C9: deductWallet fails with InternalError whenever the store operation fails
\* (store unreachable, id not found): the caller never receives the store's own
\* error, and never a success for a missing id.
C9_StoreFailureIsInternalError ==
    resp.op = "deductWallet" =>
        /\ resp.ok => resp.params._id \in DOMAIN store
        /\ ~resp.ok => resp.err = InternalError

----------------------------------------------------------------------------
(* C10 *)

\* C10: registerwithtoken whose provider call fails (timeout or non-success)
\* fails with OnboardingError, leaves the stored accounts unchanged and leaves
\* no registration in flight.
C10_ProviderFailureIsOnboardingError ==
    [][\A r \in Slots, params \in RegTokenParams, data \in ProviderProfiles,
          outcome \in ProviderOutcomes \ {"ok"} :
          RegisterWithToken(r, params, NoToken, outcome, data) =>
              /\ resp' = Fail("registerwithtoken", params, NoToken, outcome, OnboardingError)
              /\ store' = store
              /\ reqs' = reqs]_vars

\* A provider timeout was answered while an account was stored
C10_Witness ==
    /\ resp.op = "registerwithtoken" /\ resp.via = "timeout"
    /\ resp.err = OnboardingError
    /\ DOMAIN store # {}

----------------------------------------------------------------------------
(* C11 *)

\* C11: when the provider call of registerwithtoken succeeds and the delegated
\* create fails a uniqueness lookup, the caller receives that ConflictError
\* (same kind and field), not OnboardingError.
C11_ConflictPropagatesUnchanged ==
    [][/\ \A r \in Slots, params \in RegTokenParams, data \in ProviderProfiles :
             (/\ RegisterWithToken(r, params, NoToken, "ok", data)
              /\ findOne("username", data.name) # 0) =>
                 (~resp'.ok /\ resp'.err = ConflictError("username"))
       /\ \A r \in Slots :
             (/\ CreateCheckEmail(r)
              /\ reqs[r].via = "provider"
              /\ findOne("email", reqs[r].params.email) # 0) =>
                 (~resp'.ok /\ resp'.err = ConflictError("email"))]_vars

----------------------------------------------------------------------------
(* C12 *)

\* C12: the wallet of an existing account changes only in a deductWallet step:
\* create, login and updateMyself with any patch leave the wallet of every
\* stored account as it was.
C12_WalletChangesOnlyByDeductWallet ==
    [][(\E i \in DOMAIN store \cap DOMAIN store' :
            Wallet(store'[i]) # Wallet(store[i])) =>
          \E r \in Slots, up \in BOOLEAN : DeductWalletStore(r, up)]_vars

----------------------------------------------------------------------------
(* C13 *)

----------------------------------------------------------------------------
(* C14 *)

\* C14: the token a successful create returns is generated for the new
\* account: resolveToken on it yields the account just created, also when the
\* request carried a session token (a validly signed, unexpired one).
C14_RegisterTokenIsFresh ==
    (/\ resp.op = "create" /\ resp.ok
     /\ (resp.token = NoToken \/ jwtVerify(resp.token) = NoErr)) =>
        /\ Resolve(resp.body.user.token).ok
        /\ Resolve(resp.body.user.token).body # Null
        /\ Resolve(resp.body.user.token).body._id = resp.body.user._id

----------------------------------------------------------------------------
(* C15 *)

\* What login throws when no account has the email
LoginFailureUnknownEmail == ClientError("Email or password is invalid!", 422, "email")

\* C15: every login failure gives the caller the same result: a failure for a
\* wrong password is the failure for an unknown email (same kind, message and
\* field).
C15_LoginFailuresAreAlike ==
    (resp.op = "login" /\ ~resp.ok) => resp.err = LoginFailureUnknownEmail

----------------------------------------------------------------------------
(* C16 *)

\* NotFoundError, as me and getbygitID signal it
IsNotFoundError(err) ==
    err.name = "MoleculerClientError" /\ err.message = "User not found!"

\* C16: resolveToken of a validly signed, unexpired token whose id matches no
\* stored account fails with NotFoundError: it returns no empty result and
\* leaves no empty result in the cache.
C16_MissingAccountIsNotFound ==
    (/\ resp.op = "resolveToken"
     /\ jwtVerify(resp.token) = NoErr
     /\ getById(resp.token.id) = Null) =>
        /\ ~resp.ok
        /\ IsNotFoundError(resp.err)
        /\ resp.token \in DOMAIN cache => cache[resp.token].data # Null

----------------------------------------------------------------------------
(* C17 *)

\* Whether an account other than `caller` holds the username or email of `patch`
HeldByAnother(patch, caller) ==
    \E i \in DOMAIN store \ {caller} :
        \/ "username" \in DOMAIN patch /\ store[i].username = patch.username
        \/ "email" \in DOMAIN patch /\ store[i].email = patch.email

\* C17: whenever updateMyself answers, it fails with ConflictError if an
\* account other than the caller holds the patch's username or email, and
\* otherwise (the patch repeating the caller's own values included) succeeds.
C17_UpdateConflictIffHeldByAnother ==
    [][/\ \A r \in Slots, caller \in DOMAIN store, patch \in Patches :
             (UpdateMyselfStart(r, caller, patch, NoToken) /\ resp'.op = "updateMyself") =>
                 IF HeldByAnother(patch, caller)
                 THEN ~resp'.ok /\ IsConflictError(resp'.err)
                 ELSE resp'.ok
       /\ \A r \in Slots :
             ((UpdateMyselfCheckEmail(r) \/ UpdateMyselfWrite(r))
              /\ resp'.op = "updateMyself") =>
                 IF HeldByAnother(reqs[r].params, reqs[r].caller)
                 THEN ~resp'.ok /\ IsConflictError(resp'.err)
                 ELSE resp'.ok]_vars

----------------------------------------------------------------------------
(* C18 *)

\* C18: a deductWallet call that succeeds on a stored account changes that
\* account's wallet to its previous value plus the delta (-cost), changes no
\* other field of the account and changes no other account.
C18_SingleAdjustment ==
    [][\A r \in Slots :
          (/\ \E up \in BOOLEAN : DeductWalletStore(r, up)
           /\ resp'.ok
           /\ reqs[r].params._id \in DOMAIN store) =>
              LET id == reqs[r].params._id
              IN /\ DOMAIN store' = DOMAIN store
                 /\ Wallet(store'[id]) = Wallet(store[id]) - reqs[r].params.cost
                 /\ DOMAIN store'[id] = DOMAIN store[id] \cup {"wallet"}
                 /\ \A f \in DOMAIN store[id] \ {"wallet"} : store'[id][f] = store[id][f]
                 /\ \A j \in DOMAIN store \ {id} : store'[j] = store[j]]_vars

\* An adjustment was applied to one of two accounts, the other holding a
\* wallet of its own
C18_Witness ==
    /\ resp.op = "deductWallet" /\ resp.ok /\ resp.body # Null
    /\ resp.params._id \in DOMAIN store
    /\ store[resp.params._id] = resp.body
    /\ \E j \in DOMAIN store \ {resp.params._id} : Wallet(store[j]) # 0

----------------------------------------------------------------------------
(* C19 *)

\* C19: a resolution answered from the cache is the data the handler returned
\* for that token string less than one hour (the cache TTL) before, whatever
\* happened to the account since; every other successful resolution returns
\* what the store holds now.
C19_CachedResolutionWithinTTL ==
    (resp.op = "resolveToken" /\ resp.ok) =>
        IF resp.via = "cache"
        THEN /\ resp.token \in DOMAIN seen
             /\ now < seen[resp.token].at + CacheTTL
             /\ resp.body = seen[resp.token].data
        ELSE resp.body = getById(resp.token.id)

\* Within the TTL the cache answered with account data the store no longer
\* holds
C19_Witness ==
    /\ resp.op = "resolveToken" /\ resp.ok /\ resp.via = "cache"
    /\ resp.token \in DOMAIN seen
    /\ seen[resp.token].at < now
    /\ getById(resp.token.id) # Null
    /\ resp.body # getById(resp.token.id)

----------------------------------------------------------------------------
(* C20 *)

\* Whether updateMyself has set the password of account `a`
PasswordPatched(a) ==
    /\ "updatedAt" \in DOMAIN store[a]
    /\ \E patch \in Patches :
          "password" \in DOMAIN patch /\ patch.password.text = store[a].password.text

\* C20: once updateMyself has set an account's password to p, login with the
\* account's email and p succeeds, and login with another password (the
\* previous one) fails with InvalidCredentialsError.
C20_LoginFollowsPasswordUpdate ==
    (resp.op = "login" /\ LoginAccount # 0 /\ PasswordPatched(LoginAccount)) =>
        IF resp.params.password.text = store[LoginAccount].password.text
        THEN resp.ok
        ELSE ~resp.ok /\ IsInvalidCredentialsError(resp.err)

----------------------------------------------------------------------------
(* C21 *)

\* C21: a step in which create or updateMyself fails with ConflictError leaves
\* the stored accounts as they were (no insert, no partial update, no
\* timestamp) and notifies no entity change; the lookup steps that precede it
\* write nothing either.
C21_ConflictLeavesStoreUnchanged ==
    [][/\ (resp'.op \in {"create", "updateMyself"} /\ IsConflictError(resp'.err)) =>
             (store' = store /\ nextId' = nextId /\ cache' = cache /\ note' = "none")
       /\ \A r \in Slots :
             (CreateCheckEmail(r) \/ UpdateMyselfCheckEmail(r)) =>
                 (store' = store /\ note' = "none")]_vars

\* updateMyself was refused for an email another account holds, next to a
\* caller that was never updated
C21_Witness ==
    /\ resp.op = "updateMyself" /\ resp.err = ConflictError("email")
    /\ note = "none"
    /\ \E i \in DOMAIN store :
          store[i].email # resp.params.email /\ "updatedAt" \notin DOMAIN store[i]

====
